---- MODULE Spec2Model ----
(***************************************************************************)
(* Luma AI decision service (services/ai-py): the HTTP handlers decide and *)
(* feedback of main.py, the gate resolve_agent_settings, the policy        *)
(* registry, BanditPolicy, OllamaPolicy and UnavailablePolicy.             *)
(*                                                                         *)
(* Conventions.  A Python str that the code inspects (strip, lower, split, *)
(* int, float, concatenation) is a sequence of one-character strings; the  *)
(* value None is the one-element sequence None below.  Enum members and    *)
(* request identifiers are TLA+ strings.  Floats that the code only adds   *)
(* +1.0 / -1.0 to are integers; confidence and cost are in tenths;         *)
(* probabilities are in hundredths.                                        *)
(***************************************************************************)
EXTENDS Integers, Sequences, FiniteSets, TLC

VARIABLES
    env,       \* os.environ: LUMA_POLICY, LUMA_AGENT_ENABLED, LUMA_RULE_ONLY
    stats,     \* BanditPolicy.stats
    pending,   \* BanditPolicy.pending: request id -> <<bucket, action type>>
    store,     \* the file data/bandit_stats.json
    fs,        \* whether the file system takes a write ("ok") or how it fails
    last,      \* the request handled last, and what the handler did for it
    policy,    \* main.policy: the policy resolved when the process starts
    consumed,  \* history: the request ids whose latest BanditPolicy call was
               \* record_feedback (none of record_decision since)
    open,      \* history: the non-empty request ids record_decision was
               \* called with, with no record_feedback for them since
    decisions, \* history: how many times record_decision was called with a
               \* non-empty request id, counted up to MaxDecisions
    tasks,     \* the feedback requests in flight: where each handler stands
    running,   \* the handler the event loop is executing, 0 when it is idle
    made,      \* how many UnavailablePolicy objects have been constructed
    handles,   \* history: <<key, instance>> for the calls of get_policy
    durable    \* history: the statistics that the last _save_stats which
               \* succeeded wrote, empty when none did

vars == <<env, stats, pending, store, fs, last, policy, consumed, open, decisions,
          tasks, running, made, handles, durable>>

(***************************************************************************)
(* Text                                                                    *)
(***************************************************************************)
None == <<"None">>

LowerLetters == <<"a","b","c","d","e","f","g","h","i","j","k","l","m",
                  "n","o","p","q","r","s","t","u","v","w","x","y","z">>
UpperLetters == <<"A","B","C","D","E","F","G","H","I","J","K","L","M",
                  "N","O","P","Q","R","S","T","U","V","W","X","Y","Z">>
Whitespace == {" ", "\t", "\n", "\r"}
Digits == <<"0","1","2","3","4","5","6","7","8","9">>

LowerSet == {LowerLetters[i] : i \in 1..26}
UpperSet == {UpperLetters[i] : i \in 1..26}
DigitSet == {Digits[i] : i \in 1..10}

\* str.upper() / str.lower(), character by character
UpperMap == [c \in LowerSet |-> UpperLetters[CHOOSE i \in 1..26 : LowerLetters[i] = c]]
LowerMap == [c \in UpperSet |-> LowerLetters[CHOOSE i \in 1..26 : UpperLetters[i] = c]]
DigitMap == [c \in DigitSet |-> (CHOOSE i \in 1..10 : Digits[i] = c) - 1]
Upper(s) == [i \in 1..Len(s) |-> IF s[i] \in LowerSet THEN UpperMap[s[i]] ELSE s[i]]
Lower(s) == [i \in 1..Len(s) |-> IF s[i] \in UpperSet THEN LowerMap[s[i]] ELSE s[i]]

\* str.strip(): drop leading and trailing whitespace
Strip(s) ==
    LET kept == {i \in 1..Len(s) : s[i] \notin Whitespace}
    IN  IF kept = {} THEN <<>>
        ELSE SubSeq(s, CHOOSE i \in kept : \A j \in kept : i <= j,
                       CHOOSE i \in kept : \A j \in kept : j <= i)

\* s.split(sep, 1)[0]: the text before the first sep, or all of s
SplitFirst(s, sep) ==
    LET at == {i \in 1..Len(s) : s[i] = sep}
    IN  IF at = {} THEN s
        ELSE SubSeq(s, 1, (CHOOSE i \in at : \A j \in at : i <= j) - 1)

\* Python truthiness of a str-or-None
Truthy(v) == v # None /\ v # <<>>
\* a or b
Or(a, b) == IF Truthy(a) THEN a ELSE b

\* dict.get(key, default)
Get(d, k, default) == IF k \in DOMAIN d THEN d[k] ELSE default

\* dict.setdefault(key, default): the dict afterwards
SetDefault(d, k, default) == IF k \in DOMAIN d THEN d ELSE d @@ (k :> default)

(***************************************************************************)
(* models.py                                                               *)
(***************************************************************************)
Mode == {"SILENT", "LIGHT", "ACTIVE"}
RiskLevel == {"LOW", "MEDIUM", "HIGH"}
\* the members of ActionType in definition order (the order of `for a in ActionType`)
ActionType == <<"DO_NOT_DISTURB", "ENCOURAGE", "TASK_BREAKDOWN", "REST_REMINDER", "REFRAME">>
ActionTypes == {ActionType[i] : i \in 1..Len(ActionType)}

\* the declared fields of the pydantic models: reading any other attribute
\* of an instance raises AttributeError, and a constructor drops any other
\* keyword (pydantic's default for extra fields is to ignore them)
ContextFields == {"user_text", "timestamp", "mode", "signals",
                  "history_summary", "profile_summary", "memory_summary"}
ActionFields == {"action_type", "message", "confidence", "cost", "risk_level"}
HasAttr(fields, name) == name \in fields

\* confidence: float = Field(ge=0, le=1), in tenths
ConfidenceMin == 0
ConfidenceMax == 10

\* Action(**kw): pydantic validates the declared fields (a ValidationError
\* otherwise; cost is an unconstrained float) and the instance holds the
\* declared fields only.
ActionValid(kw) ==
    /\ kw.action_type \in ActionTypes
    /\ kw.risk_level \in RiskLevel
    /\ kw.confidence >= ConfidenceMin /\ kw.confidence <= ConfidenceMax
NewAction(kw) == [f \in ActionFields |-> kw[f]]

\* filler for "no Action was returned"
NoAction == [action_type |-> "n/a", message |-> "n/a", confidence |-> 0 - 1,
             cost |-> 0 - 1, risk_level |-> "n/a"]

(***************************************************************************)
(* policy/bandit.py                                                        *)
(***************************************************************************)
\* self.epsilon = 0.15, in hundredths
epsilon == 15

\* the file bandit_stats.json when absent, and when its text is no JSON
NoFile == [kind |-> "missing", doc |-> <<>>]
CorruptFile == [kind |-> "corrupt", doc |-> <<>>]

\* {"buckets": {}}
EmptyStats == [buckets |-> <<>>]

init_bucket == [a \in ActionTypes |-> [count |-> 0, reward |-> 0]]

\* (faulty variant) a key that also tells the focused application apart
bucket_key_with_app(context) ==
    <<context.mode>> \o <<"|">> \o Get(context.signals, "hour_of_day", <<>>) \o <<"|">>
    \o Get(context.signals, "focus_state", <<"U","N","K","N","O","W","N">>)
    \o <<"|">> \o Get(context.signals, "focus_app", <<>>)

bucket_key(context) ==
    LET signals == context.signals
        hour == IF DOMAIN signals # {} THEN Get(signals, "hour_of_day", <<>>) ELSE <<>>
        focus_state == IF DOMAIN signals # {}
                       THEN Get(signals, "focus_state", <<"U","N","K","N","O","W","N">>)
                       ELSE <<"U","N","K","N","O","W","N">>
    IN  <<context.mode>> \o <<"|">> \o hour \o <<"|">> \o focus_state

\* score = reward / count if count else 0.0, kept as the fraction <<num, den>>
\* with den > 0.  For the integral rewards and the counts the service can
\* hold, float division is exact enough that comparing the quotients is
\* comparing the fractions.
Score(st) ==
    LET count == Get(st, "count", 0)
        reward == Get(st, "reward", 0)
    IN  IF count = 0 THEN <<0, 1>>
        ELSE IF count > 0 THEN <<reward, count>> ELSE <<0 - reward, 0 - count>>
ScoreGt(a, b) == a[1] * b[2] > b[1] * a[2]
ScoreEq(a, b) == a[1] * b[2] = b[1] * a[2]

\* the for loop of _select_action from actions[i] on; best = <<>> is
\* best_score None, and <<s>> is best_score s
RECURSIVE BestLoop(_, _, _, _)
BestLoop(bucket_stats, i, best, best_actions) ==
    IF i > Len(ActionType) THEN best_actions
    ELSE LET action == ActionType[i]
             st == Get(bucket_stats, action, [count |-> 0, reward |-> 0])
             score == Score(st)
         IN  IF best = <<>> \/ ScoreGt(score, best[1])
             THEN BestLoop(bucket_stats, i + 1, <<score>>, <<action>>)
             ELSE IF ScoreEq(score, best[1])
             THEN BestLoop(bucket_stats, i + 1, best, Append(best_actions, action))
             ELSE BestLoop(bucket_stats, i + 1, best, best_actions)

\* (faulty variant) only the first action type with the maximal score, as max() gives
best_actions_first(bucket_stats) == <<Head(BestLoop(bucket_stats, 1, <<>>, <<>>))>>

\* best_actions after the loop
best_actions(bucket_stats) == BestLoop(bucket_stats, 1, <<>>, <<>>)

\* _select_action: the <<action type, exploring>> pairs it can return when
\* random.random() gives draw (hundredths); random.choice returns any
\* element of its argument
select_action(bucket_stats, draw) ==
    IF draw < epsilon
    THEN {<<ActionType[i], TRUE>> : i \in 1..Len(ActionType)}
    ELSE IF best_actions(bucket_stats) = <<>>
    THEN {<<"ENCOURAGE", FALSE>>}
    ELSE {<<best_actions(bucket_stats)[i], FALSE>> : i \in 1..Len(best_actions(bucket_stats))}

\* (faulty variant) decide without the SILENT branch
decide_choices_any_mode(context, bucket_stats, draw) == select_action(bucket_stats, draw)

\* the <<chosen, exploring>> pairs of BanditPolicy.decide (lines 23-27)
decide_choices(context, bucket_stats, draw) ==
    IF context.mode = "SILENT"
    THEN {<<"DO_NOT_DISTURB", FALSE>>}
    ELSE select_action(bucket_stats, draw)

build_message(action, context) ==
    LET signals == context.signals
        focus_minutes == IF DOMAIN signals # {} THEN Get(signals, "focus_minutes", <<"0">>) ELSE <<"0">>
        app_name == IF DOMAIN signals # {} THEN Get(signals, "focus_app", <<>>) ELSE <<>>
    IN  IF action = "REST_REMINDER" THEN <<"You've focused for ">> \o focus_minutes \o <<" minutes. Want a short break?">>
        ELSE IF action = "TASK_BREAKDOWN" THEN <<"If the task feels large, try breaking it into 2-3 small steps.">>
        ELSE IF action = "REFRAME" THEN <<"Maybe try a different angle. Start with the easiest part?">>
        ELSE IF action = "ENCOURAGE"
        THEN IF Truthy(app_name) THEN <<"Nice pace in ">> \o app_name \o <<". Keep it up.">>
             ELSE <<"Good progress. Keep this pace.">>
        ELSE <<"I'll stay quiet. Tap me if you need anything.">>

build_reason(bucket, bucket_stats, action, exploring) ==
    LET st == Get(bucket_stats, action, [count |-> 0, reward |-> 0])
    IN  [mode |-> IF exploring THEN "explore" ELSE "exploit",
         bucket |-> bucket, avg |-> Score(st), count |-> Get(st, "count", 0)]

\* _action_cost, in tenths
action_cost(action) ==
    IF action = "DO_NOT_DISTURB" THEN 0
    ELSE IF action = "REST_REMINDER" THEN 20
    ELSE IF action = "ENCOURAGE" THEN 15
    ELSE IF action = "TASK_BREAKDOWN" THEN 30
    ELSE IF action = "REFRAME" THEN 25
    ELSE 10

\* (faulty variant) a decide that already counts the action it chooses
Bandit_decide_counting(st, context, choice) ==
    LET bucket == bucket_key(context)
        buckets == SetDefault(st.buckets, bucket, init_bucket)
        bucket_stats == buckets[bucket]
        chosen == choice[1]
        exploring == choice[2]
        kw == [action_type |-> chosen,
               message |-> build_message(chosen, context),
               confidence |-> 6,
               cost |-> action_cost(chosen),
               risk_level |-> "LOW",
               reason |-> build_reason(bucket, bucket_stats, chosen, exploring)]
    IN  [stats |-> [buckets |-> [buckets EXCEPT ![bucket][chosen].count = @ + 1]],
         raised |-> IF ActionValid(kw) THEN "" ELSE "ValidationError",
         action |-> IF ActionValid(kw) THEN NewAction(kw) ELSE NoAction,
         policy_version |-> "bandit_v0",
         model_version |-> "bandit_local"]

\* BanditPolicy.decide for one outcome <<chosen, exploring>> of the draws:
\* the statistics afterwards (setdefault may add the bucket) and the result
Bandit_decide(st, context, choice) ==
    LET bucket == bucket_key(context)
        buckets == SetDefault(st.buckets, bucket, init_bucket)
        bucket_stats == buckets[bucket]
        chosen == choice[1]
        exploring == choice[2]
        kw == [action_type |-> chosen,
               message |-> build_message(chosen, context),
               confidence |-> 6,
               cost |-> action_cost(chosen),
               risk_level |-> "LOW",
               reason |-> build_reason(bucket, bucket_stats, chosen, exploring)]
    IN  [stats |-> [buckets |-> buckets],
         raised |-> IF ActionValid(kw) THEN "" ELSE "ValidationError",
         action |-> IF ActionValid(kw) THEN NewAction(kw) ELSE NoAction,
         policy_version |-> "bandit_v0",
         model_version |-> "bandit_local"]

\* (faulty variant) an identifier already pending keeps its first entry
record_decision_keeps_first(pend, request_id, context, action) ==
    IF request_id = "" \/ request_id \in DOMAIN pend THEN pend
    ELSE [r \in DOMAIN pend \cup {request_id} |->
            IF r = request_id THEN <<bucket_key(context), action.action_type>> ELSE pend[r]]

\* record_decision: the pending map afterwards
record_decision(pend, request_id, context, action) ==
    IF request_id = "" THEN pend
    ELSE [r \in DOMAIN pend \cup {request_id} |->
            IF r = request_id THEN <<bucket_key(context), action.action_type>> ELSE pend[r]]

FeedbackPositive == {<<"L","I","K","E">>, <<"A","D","O","P","T","E","D">>,
                     <<"O","P","E","N","_","P","A","N","E","L">>}
FeedbackNegative == {<<"D","I","S","L","I","K","E">>, <<"I","G","N","O","R","E","D">>,
                     <<"C","L","O","S","E","D">>}

\* (faulty variant) the prefix compared as written, neither trimmed nor upper-cased
feedback_type_raw(feedback) == SplitFirst(feedback, ":")

feedback_type(feedback) == Upper(Strip(SplitFirst(feedback, ":")))

feedback_reward(feedback) ==
    IF feedback_type(feedback) \in FeedbackPositive THEN 1
    ELSE IF feedback_type(feedback) \in FeedbackNegative THEN 0 - 1
    ELSE 0

\* the feedback texts the clients send
Feedbacks ==
    { <<"L","I","K","E",":","x">>, <<" ","a","d","o","p","t","e","d"," ">>,
      <<"O","P","E","N","_","P","A","N","E","L">>,
      <<"D","I","S","L","I","K","E">>, <<"i","g","n","o","r","e","d",":","1">>, <<"C","L","O","S","E","D">>,
      <<"N","O","O","P">>, <<":","L","I","K","E">> }
GateFeedbacks == { <<"L","I","K","E">>, <<"C","L","O","S","E","D">>, <<"N","O","O","P">> }

\* _feedback_reward of each of these texts, computed once
Rewards == [t \in Feedbacks \cup GateFeedbacks |-> feedback_reward(t)]

\* ---- the JSON document written by json.dump and read by json.load ----
\* A JSON object is the sequence of its <<key, value>> members in the order
\* written; a number is [t |-> "int" | "float", v |-> value].

\* iteration over a dict: its keys in some fixed order
RECURSIVE KeysOf(_)
KeysOf(S) == IF S = {} THEN <<>>
             ELSE LET k == CHOOSE k \in S : TRUE IN <<k>> \o KeysOf(S \ {k})
\* the keys of a bucket: those _init_bucket inserted, in the order of
\* ActionType, then any other
BucketKeys(bucket_stats) ==
    IF DOMAIN bucket_stats = ActionTypes THEN ActionType
    ELSE SelectSeq(ActionType, LAMBDA k : k \in DOMAIN bucket_stats)
         \o KeysOf(DOMAIN bucket_stats \ ActionTypes)

\* json.dump of {"count": int, "reward": float}
DumpActionStats(st) ==
    << <<"count", [t |-> "int", v |-> st.count]>>,
       <<"reward", [t |-> "float", v |-> st.reward]>> >>
\* (faulty variant) a dump that leaves out the action types never tried
DumpBucket_sparse(bucket_stats) ==
    LET keys == KeysOf({k \in DOMAIN bucket_stats : bucket_stats[k].count # 0})
    IN  [i \in 1..Len(keys) |-> <<keys[i], DumpActionStats(bucket_stats[keys[i]])>>]

DumpBucket(bucket_stats) ==
    LET keys == BucketKeys(bucket_stats)
    IN  [i \in 1..Len(keys) |-> <<keys[i], DumpActionStats(bucket_stats[keys[i]])>>]
DumpBuckets(buckets) ==
    LET keys == KeysOf(DOMAIN buckets)
    IN  [i \in 1..Len(keys) |-> <<keys[i], DumpBucket(buckets[keys[i]])>>]
\* json.dump(self.stats)
Dump(st) == << <<"buckets", DumpBuckets(st.buckets)>> >>

\* json.load of an object: a dict by key, a repeated key keeping its last value
MemberKeys(obj) == {obj[i][1] : i \in 1..Len(obj)}
MemberValue(obj, k) ==
    obj[CHOOSE i \in 1..Len(obj) :
            obj[i][1] = k /\ \A j \in (i + 1)..Len(obj) : obj[j][1] # k][2]
LoadActionStats(obj) == [k \in MemberKeys(obj) |-> MemberValue(obj, k).v]
LoadBucket(obj) == [k \in MemberKeys(obj) |-> LoadActionStats(MemberValue(obj, k))]
LoadBuckets(obj) == [k \in MemberKeys(obj) |-> LoadBucket(MemberValue(obj, k))]
Load(doc) == [buckets |-> LoadBuckets(MemberValue(doc, "buckets"))]

\* _load_stats: the statistics for a store
load_stats(file) ==
    IF file.kind = "file" THEN Load(file.doc) ELSE EmptyStats

\* _save_stats under the storage condition cond: os.makedirs is outside the
\* try and its error propagates; an error of open leaves the file as it
\* was; an error while writing leaves the truncated file; both are swallowed
save_stats(st, file, cond) ==
    IF cond = "mkdir_fails" THEN [store |-> file, raised |-> "OSError"]
    ELSE IF cond = "open_fails" THEN [store |-> file, raised |-> ""]
    ELSE IF cond = "write_fails" THEN [store |-> CorruptFile, raised |-> ""]
    ELSE [store |-> [kind |-> "file", doc |-> Dump(st)], raised |-> ""]

\* (faulty variant) the reward is added twice
apply_reward_doubled(st, bucket, action_type, reward) ==
    LET buckets == SetDefault(st.buckets, bucket, init_bucket)
        bucket_stats == SetDefault(buckets[bucket], action_type, [count |-> 0, reward |-> 0])
        action_stats == bucket_stats[action_type]
        updated == [action_stats EXCEPT !.count = @ + 1, !.reward = @ + reward + reward]
    IN  [buckets |-> [buckets EXCEPT ![bucket] = [bucket_stats EXCEPT ![action_type] = updated]]]

\* the statistics after lines 58-62 of record_feedback
apply_reward(st, bucket, action_type, reward) ==
    LET buckets == SetDefault(st.buckets, bucket, init_bucket)
        bucket_stats == SetDefault(buckets[bucket], action_type, [count |-> 0, reward |-> 0])
        action_stats == bucket_stats[action_type]
        updated == [action_stats EXCEPT !.count = @ + 1, !.reward = @ + reward]
    IN  [buckets |-> [buckets EXCEPT ![bucket] = [bucket_stats EXCEPT ![action_type] = updated]]]

\* (faulty variant) the entry is read with get() and stays in the pending map
record_feedback_keeps_entry(st, pend, file, cond, request_id, feedback) ==
    LET same == [stats |-> st, pending |-> pend, store |-> file,
                 hit |-> FALSE, saved |-> FALSE, raised |-> ""]
    IN  IF request_id = "" \/ request_id \notin DOMAIN pend THEN same
        ELSE LET entry == pend[request_id]
                 reward == Rewards[feedback]
                 st2 == apply_reward(st, entry[1], entry[2], reward)
                 sv == save_stats(st2, file, cond)
             IN  IF reward = 0 THEN [same EXCEPT !.hit = TRUE]
                 ELSE [stats |-> st2, pending |-> pend, store |-> sv.store,
                       hit |-> TRUE, saved |-> TRUE, raised |-> sv.raised]

\* (faulty variant) without the early return on reward 0: every feedback is a trial
record_feedback_counts_zero(st, pend, file, cond, request_id, feedback) ==
    LET same == [stats |-> st, pending |-> pend, store |-> file,
                 hit |-> FALSE, saved |-> FALSE, raised |-> ""]
    IN  IF request_id = "" \/ request_id \notin DOMAIN pend THEN same
        ELSE LET entry == pend[request_id]
                 popped == [r \in DOMAIN pend \ {request_id} |-> pend[r]]
                 st2 == apply_reward(st, entry[1], entry[2], Rewards[feedback])
                 sv == save_stats(st2, file, cond)
             IN  [stats |-> st2, pending |-> popped, store |-> sv.store,
                  hit |-> TRUE, saved |-> TRUE, raised |-> sv.raised]

\* (faulty variant) the entry is removed only once its feedback counts
record_feedback_keeps_on_zero(st, pend, file, cond, request_id, feedback) ==
    LET same == [stats |-> st, pending |-> pend, store |-> file,
                 hit |-> FALSE, saved |-> FALSE, raised |-> ""]
    IN  IF request_id = "" \/ request_id \notin DOMAIN pend THEN same
        ELSE LET entry == pend[request_id]
                 popped == [r \in DOMAIN pend \ {request_id} |-> pend[r]]
                 reward == Rewards[feedback]
                 st2 == apply_reward(st, entry[1], entry[2], reward)
                 sv == save_stats(st2, file, cond)
             IN  IF reward = 0 THEN [same EXCEPT !.hit = TRUE]
                 ELSE [stats |-> st2, pending |-> popped, store |-> sv.store,
                       hit |-> TRUE, saved |-> TRUE, raised |-> sv.raised]

\* record_feedback: statistics, pending map and store afterwards; hit
\* tells whether a pending entry was found, saved whether _save_stats was
\* called, raised the exception that escapes
record_feedback(st, pend, file, cond, request_id, feedback) ==
    LET same == [stats |-> st, pending |-> pend, store |-> file,
                 hit |-> FALSE, saved |-> FALSE, raised |-> ""]
    IN  IF request_id = "" THEN same
        ELSE IF request_id \notin DOMAIN pend THEN same
        ELSE LET entry == pend[request_id]
                 popped == [r \in DOMAIN pend \ {request_id} |-> pend[r]]
                 reward == Rewards[feedback]
                 st2 == apply_reward(st, entry[1], entry[2], reward)
                 sv == save_stats(st2, file, cond)
             IN  IF reward = 0 THEN [same EXCEPT !.pending = popped, !.hit = TRUE]
                 ELSE [stats |-> st2, pending |-> popped, store |-> sv.store,
                       hit |-> TRUE, saved |-> TRUE, raised |-> sv.raised]
(***************************************************************************)
(* policy/ollama.py                                                        *)
(***************************************************************************)
TruthyWords == {<<"1">>, <<"t","r","u","e">>, <<"y","e","s">>, <<"o","n">>}
FalsyWords == {<<"0">>, <<"f","a","l","s","e">>, <<"n","o">>, <<"o","f","f">>}

\* OllamaPolicy._truthy
truthy(value) == IF value = None THEN FALSE ELSE Lower(Strip(value)) \in TruthyWords

DigitValue(c) == DigitMap[c]
IsDigits(s) == s # <<>> /\ \A i \in 1..Len(s) : s[i] \in DigitSet
RECURSIVE DigitsValue(_)
DigitsValue(s) == IF s = <<>> THEN 0
                  ELSE 10 * DigitsValue(SubSeq(s, 1, Len(s) - 1)) + DigitValue(s[Len(s)])
Unsigned(s) == IF s # <<>> /\ Head(s) \in {"+", "-"} THEN Tail(s) ELSE s
SignOf(s) == IF s # <<>> /\ Head(s) = "-" THEN 0 - 1 ELSE 1

\* _parse_int: int(value.strip()) for a decimal literal with an optional
\* sign; ValueError gives None.  The result is [ok, v]; ok FALSE is None.
parse_int(value) ==
    IF value = None THEN [ok |-> FALSE, v |-> 0]
    ELSE LET t == Strip(value)
         IN  IF IsDigits(Unsigned(t))
             THEN [ok |-> TRUE, v |-> SignOf(t) * DigitsValue(Unsigned(t))]
             ELSE [ok |-> FALSE, v |-> 0]

\* _parse_float: float(value.strip()) for the literals [sign]digits[.digits],
\* [sign]digits. and [sign].digits (no exponent, inf or nan); ValueError
\* gives None.  The value is kept as [ok, num, frac]: num / 10^frac.
parse_float(value) ==
    IF value = None THEN [ok |-> FALSE, num |-> 0, frac |-> 0]
    ELSE LET t == Unsigned(Strip(value))
             whole == SplitFirst(t, ".")
             rest == SubSeq(t, Len(whole) + 2, Len(t))
             digits == whole \o rest
         IN  IF IsDigits(digits) /\ (whole = <<>> \/ IsDigits(whole)) /\ (rest = <<>> \/ IsDigits(rest))
             THEN [ok |-> TRUE, num |-> SignOf(Strip(value)) * DigitsValue(digits), frac |-> Len(rest)]
             ELSE [ok |-> FALSE, num |-> 0, frac |-> 0]

\* which precheck condition holds first ("" when none): lines 136-153,
\* before _precheck_action is called
precheck_reason(context, now_ms) ==
    LET signals == context.signals
        cooldown_until == parse_int(Get(signals, "cooldown_until_ms", None))
        remaining_budget == parse_float(Get(signals, "budget_remaining", None))
    IN  IF context.user_text # <<>> /\ Strip(context.user_text) # <<>> THEN ""
        ELSE IF truthy(Get(signals, "cooldown_active", None)) THEN "cooldown_active"
        ELSE IF truthy(Get(signals, "budget_exhausted", None)) THEN "budget_exhausted"
        ELSE IF cooldown_until.ok /\ cooldown_until.v # 0 /\ cooldown_until.v > now_ms THEN "cooldown_until"
        ELSE IF remaining_budget.ok /\ remaining_budget.num <= 0 THEN "budget_remaining"
        ELSE ""

\* _precheck_action: it reads context.focus_state first
precheck_action(message, reason, context) ==
    IF ~HasAttr(ContextFields, "focus_state")
    THEN [raised |-> "AttributeError", action |-> NoAction]
    ELSE LET kw == [action_type |-> "DO_NOT_DISTURB", message |-> message, confidence |-> 10,
                    cost |-> 0, risk_level |-> "LOW", reason |-> <<"precheck:", reason>>,
                    state |-> Or(Or(context.focus_state, Get(context.signals, "focus_state", <<>>)),
                                 <<"U","N","K","N","O","W","N">>)]
         IN  [raised |-> "", action |-> NewAction(kw)]

\* _precheck: [fired, raised, action]; fired FALSE is the result None
precheck(context, now_ms) ==
    LET reason == precheck_reason(context, now_ms)
        message == IF reason \in {"cooldown_active", "cooldown_until"}
                   THEN <<"in cooldown, no prompt for now">>
                   ELSE <<"intervention budget used up, no prompt for now">>
        built == precheck_action(message, reason, context)
    IN  IF reason = "" THEN [fired |-> FALSE, raised |-> "", action |-> NoAction]
        ELSE [fired |-> TRUE, raised |-> built.raised, action |-> built.action]

\* _build_prompt up to line 86: the exception it raises ("" when none)
build_prompt_raised(context) ==
    LET switch_count == Get(context.signals, "switch_count", <<>>)
    IN  IF ~Truthy(switch_count) /\ ~HasAttr(ContextFields, "switch_count") THEN "AttributeError"
        ELSE IF ~HasAttr(ContextFields, "focus_state") THEN "AttributeError"
        ELSE ""

\* self.model (OLLAMA_MODEL unset) and the per-request override, lines 22-26
DefaultModel == <<"llama3.1:8b">>
chosen_model(context) ==
    LET override_model == IF DOMAIN context.signals # {}
                          THEN Strip(Get(context.signals, "ollama_model", <<>>))
                          ELSE <<>>
    IN  IF Truthy(override_model) THEN override_model ELSE DefaultModel

\* the fixed Action of the except branch
ErrorAction ==
    NewAction([action_type |-> "DO_NOT_DISTURB", message |-> <<"AI service temporarily unavailable">>,
               confidence |-> 10, cost |-> 0, risk_level |-> "LOW", reason |-> "ollama_error"])

\* what the backend call and the parsing of its reply give.  kind "ok" is
\* a reply whose "response" parses to a JSON object, data; every other
\* kind is an exception raised inside the try.  A number of data is
\* [ok, v]: ok FALSE is a value float() rejects.
BackendFailures == {"ConnectionError", "Timeout", "HTTPError", "BodyNotJSON", "InnerNotJSON"}

\* the try block, lines 31-63: "" or the exception raised inside it
try_raised(context, backend) ==
    LET data == backend.data
        confidence == Get(data, "confidence", [ok |-> TRUE, v |-> 5])
        cost == Get(data, "cost", [ok |-> TRUE, v |-> 0])
        kw == [action_type |-> Get(data, "action_type", "DO_NOT_DISTURB"),
               risk_level |-> Get(data, "risk_level", "LOW"),
               confidence |-> confidence.v]
    IN  IF backend.kind \in BackendFailures THEN backend.kind
        \* reason: _fallback_reason reads context.focus_state
        ELSE IF ~Truthy(Get(data, "reason", <<>>)) /\ ~HasAttr(ContextFields, "focus_state") THEN "AttributeError"
        ELSE IF ~Truthy(Get(data, "state", <<>>)) /\ ~HasAttr(ContextFields, "focus_state") THEN "AttributeError"
        ELSE IF ~confidence.ok \/ ~cost.ok THEN "ValueError"
        ELSE IF ~ActionValid(kw) THEN "ValidationError"
        ELSE ""

try_action(context, backend) ==
    LET data == backend.data
    IN  NewAction([action_type |-> Get(data, "action_type", "DO_NOT_DISTURB"),
                   message |-> Get(data, "message", <<"no suggestion available">>),
                   confidence |-> Get(data, "confidence", [ok |-> TRUE, v |-> 5]).v,
                   cost |-> Get(data, "cost", [ok |-> TRUE, v |-> 0]).v,
                   risk_level |-> Get(data, "risk_level", "LOW")])

\* OllamaPolicy.decide
Ollama_decide(context, now_ms, backend) ==
    LET pre == precheck(context, now_ms)
        none == [raised |-> "", action |-> NoAction, policy_version |-> "ollama_v0",
                 model_version |-> <<>>, backend_called |-> FALSE]
    IN  IF build_prompt_raised(context) # ""
        THEN [none EXCEPT !.raised = build_prompt_raised(context)]
        ELSE IF pre.fired
        THEN [none EXCEPT !.raised = pre.raised, !.action = pre.action, !.model_version = <<"precheck">>]
        ELSE IF try_raised(context, backend) # ""
        THEN [none EXCEPT !.action = ErrorAction, !.model_version = <<"error">>, !.backend_called = TRUE]
        ELSE [none EXCEPT !.action = try_action(context, backend),
                          !.model_version = chosen_model(context), !.backend_called = TRUE]

(***************************************************************************)
(* policy/unavailable.py                                                   *)
(***************************************************************************)
Unavailable_decide(context) ==
    [raised |-> "",
     action |-> NewAction([action_type |-> "DO_NOT_DISTURB", message |-> <<"no environment available">>,
                           confidence |-> 10, cost |-> 0, risk_level |-> "LOW"]),
     policy_version |-> "unavailable", model_version |-> <<"n/a">>]
(***************************************************************************)
(* policy/__init__.py                                                      *)
(***************************************************************************)
\* get_policy: which policy the name resolves to
get_policy(name) ==
    LET key == Lower(Strip(IF Truthy(name) THEN name ELSE <<>>))
    IN  IF key = <<>> THEN "ollama"
        ELSE IF key = <<"b","a","n","d","i","t">> THEN "bandit"
        ELSE IF key = <<"o","l","l","a","m","a">> THEN "ollama"
        ELSE "unavailable"

\* key = (name or "").strip().lower(), line 13
policy_key(name) == Lower(Strip(IF Truthy(name) THEN name ELSE <<>>))

\* how many UnavailablePolicy objects exist after a call made when n
\* existed: the default argument UnavailablePolicy() of line 16 is
\* evaluated on every call that gets there
get_policy_made(name, n) == IF policy_key(name) = <<>> THEN n ELSE n + 1

\* the object a call returns when n UnavailablePolicy objects existed
\* before it: <<class, serial number>>; the two objects of _POLICIES have
\* serial number 0
get_policy_instance(name, n) ==
    IF get_policy(name) = "unavailable" THEN <<"unavailable", n + 1>>
    ELSE <<get_policy(name), 0>>

(***************************************************************************)
(* main.py                                                                 *)
(***************************************************************************)
\* parse_bool: "True", "False" or "None"
parse_bool(value) ==
    IF value = None THEN "None"
    ELSE IF Lower(Strip(value)) \in TruthyWords THEN "True"
    ELSE IF Lower(Strip(value)) \in FalsyWords THEN "False"
    ELSE "None"

env_bool(name, default) ==
    IF parse_bool(env[name]) = "None" THEN default ELSE parse_bool(env[name]) = "True"

\* os.getenv("LUMA_POLICY", "ollama"), line 23
policy_name(e) == IF e["LUMA_POLICY"] = None THEN <<"o","l","l","a","m","a">> ELSE e["LUMA_POLICY"]

\* get_policy(os.getenv("LUMA_POLICY", "ollama")), lines 23-24
configured_policy(e) ==
    get_policy(IF e["LUMA_POLICY"] = None THEN <<"o","l","l","a","m","a">> ELSE e["LUMA_POLICY"])

\* resolve_agent_settings: <<agent_enabled, rule_only>>
resolve_agent_settings(context) ==
    LET signals == context.signals
        signal_agent == parse_bool(Get(signals, "agent_enabled", None))
        signal_rule == parse_bool(Or(Get(signals, "rule_only_mode", None),
                                     Get(signals, "rule_only", None)))
    IN  << IF signal_agent # "None" THEN signal_agent = "True" ELSE env_bool("LUMA_AGENT_ENABLED", TRUE),
           IF signal_rule # "None" THEN signal_rule = "True" ELSE env_bool("LUMA_RULE_ONLY", FALSE) >>

\* the Action(...) of a gate short-circuit, lines 61-69 and 72-80: the
\* argument state= reads payload.context.focus_state
gate_action(context, message, reason) ==
    IF ~HasAttr(ContextFields, "focus_state")
    THEN [raised |-> "AttributeError", action |-> NoAction]
    ELSE LET kw == [action_type |-> "DO_NOT_DISTURB", message |-> message, confidence |-> 10,
                    cost |-> 0, risk_level |-> "LOW", reason |-> reason,
                    state |-> Or(context.focus_state, Get(context.signals, "focus_state", <<>>))]
         IN  [raised |-> "", action |-> NewAction(kw)]

\* which stage of decide answers the request
gate_stage(context) ==
    LET settings == resolve_agent_settings(context)
    IN  IF ~settings[1] THEN "agent_disabled"
        ELSE IF settings[2] THEN "rule_only"
        ELSE "policy"

\* what the handler of the latest request did: the response it gave (or
\* the exception that escaped it) and which calls it made
Idle ==
    [op |-> "none", mode |-> "", stage |-> "", raised |-> "", action |-> NoAction,
     policy_version |-> "", model_version |-> <<>>,
     policy_called |-> FALSE, backend_called |-> FALSE,
     hit |-> FALSE, saved |-> FALSE, repeated |-> FALSE]

\* sum of the counts of every bucket and action type
RECURSIVE SumCounts(_, _)
SumCounts(bucket_stats, keys) ==
    IF keys = {} THEN 0
    ELSE LET k == CHOOSE k \in keys : TRUE
         IN  bucket_stats[k].count + SumCounts(bucket_stats, keys \ {k})
RECURSIVE SumBuckets(_, _)
SumBuckets(buckets, keys) ==
    IF keys = {} THEN 0
    ELSE LET k == CHOOSE k \in keys : TRUE
         IN  SumCounts(buckets[k], DOMAIN buckets[k]) + SumBuckets(buckets, keys \ {k})
TotalCount(st) == SumBuckets(st.buckets, DOMAIN st.buckets)

(***************************************************************************)
(* Bounds and inputs                                                       *)
(***************************************************************************)
\* feedback that would be trial number MaxTrials + 1 is not delivered
MaxTrials == 2
\* the clock reads 1..MaxNow milliseconds
MaxNow == 2
\* the feedback handlers that can be in flight are 1..MaxTasks
MaxTasks == 2
TaskIds == 1..MaxTasks
\* get_policy is called at most MaxLookups times after the start
MaxLookups == 3
\* the calls of record_decision are counted up to the number of trials
\* that can be delivered; a count of MaxDecisions stands for "that many or
\* more"
MaxDecisions == MaxTrials

\* random.random(), in hundredths
Draws == {14, 15}

Sig1(k, v) == (k :> v)
Sig2(k1, v1, k2, v2) == (k1 :> v1) @@ (k2 :> v2)
Ctx(mode, user_text, signals) == [user_text |-> user_text, mode |-> mode, signals |-> signals]

RequestIds == {"", "r1"}

Contexts ==
    { Ctx("SILENT", <<>>, <<>>),
      Ctx("LIGHT", <<>>, <<>>) }

Environments ==
    { [LUMA_POLICY |-> <<"b","a","n","d","i","t">>, LUMA_AGENT_ENABLED |-> None, LUMA_RULE_ONLY |-> None] }

\* the requests and deployments of GateSpec
GateContexts ==
    { Ctx("LIGHT", <<>>, <<>>),
      Ctx("LIGHT", <<>>, Sig1("agent_enabled", <<"0">>)),
      Ctx("LIGHT", <<>>, Sig1("agent_enabled", <<" ","O","f","f"," ">>)),
      Ctx("LIGHT", <<>>, Sig1("agent_enabled", <<"m","a","y","b","e">>)),
      Ctx("LIGHT", <<>>, Sig1("agent_enabled", <<"1">>)),
      Ctx("LIGHT", <<>>, Sig1("rule_only", <<"1">>)),
      Ctx("LIGHT", <<>>, Sig1("rule_only_mode", <<"y","e","s">>)),
      Ctx("LIGHT", <<>>, Sig1("rule_only", <<"o","f","f">>)),
      Ctx("LIGHT", <<>>, Sig2("agent_enabled", <<"f","a","l","s","e">>, "rule_only", <<"t","r","u","e">>)),
      Ctx("LIGHT", <<>>, Sig2("rule_only_mode", <<"m","a","y","b","e">>, "rule_only", <<"1">>)),
      Ctx("LIGHT", <<>>, Sig2("rule_only_mode", <<>>, "rule_only", <<"O","N">>)) }

OllamaContexts ==
    { Ctx("LIGHT", <<>>, Sig1("cooldown_active", <<"t","r","u","e">>)),
      Ctx("LIGHT", <<" ">>, Sig1("budget_exhausted", <<"Y","E","S">>)),
      Ctx("LIGHT", <<>>, Sig1("cooldown_until_ms", <<"2">>)),
      Ctx("LIGHT", <<>>, Sig1("budget_remaining", <<"0">>)),
      Ctx("LIGHT", <<>>, Sig1("budget_remaining", <<"-","1",".","5">>)),
      Ctx("LIGHT", <<>>, Sig1("budget_remaining", <<"a","b","c">>)),
      Ctx("LIGHT", <<"h","i">>, Sig1("cooldown_active", <<"t","r","u","e">>)),
      Ctx("LIGHT", <<"h","i">>, Sig2("switch_count", <<"3">>, "focus_state", <<"F","O","C","U","S","E","D">>)),
      Ctx("SILENT", <<"h","i">>, Sig1("ollama_model", <<"m">>)) }

Num(v) == [ok |-> TRUE, v |-> v]
BadNum == [ok |-> FALSE, v |-> 0]
FullReply ==
    ("action_type" :> "ENCOURAGE") @@ ("message" :> <<"keep going">>) @@ ("risk_level" :> "LOW")
    @@ ("reason" :> <<"focus_state=FOCUSED">>) @@ ("state" :> <<"F","O","C","U","S","E","D">>)
Backends ==
    {[kind |-> k, data |-> <<>>] : k \in BackendFailures}
    \cup {[kind |-> "ok", data |-> d] :
            d \in { <<>>,
                    FullReply @@ ("confidence" :> Num(8)) @@ ("cost" :> Num(3)),
                    FullReply @@ ("confidence" :> Num(15)),
                    FullReply @@ ("confidence" :> BadNum),
                    ("action_type" :> "SING") @@ FullReply }}

GateEnvironments ==
    { [LUMA_POLICY |-> None, LUMA_AGENT_ENABLED |-> None, LUMA_RULE_ONLY |-> None],
      [LUMA_POLICY |-> <<"r","u","l","e","s">>, LUMA_AGENT_ENABLED |-> <<"m","a","y","b","e">>, LUMA_RULE_ONLY |-> None],
      [LUMA_POLICY |-> <<" ","B","a","n","d","i","t">>, LUMA_AGENT_ENABLED |-> <<"0">>, LUMA_RULE_ONLY |-> None],
      [LUMA_POLICY |-> <<"b","a","n","d","i","t">>, LUMA_AGENT_ENABLED |-> None, LUMA_RULE_ONLY |-> <<"o","n">>] }

(***************************************************************************)
(* The service                                                             *)
(***************************************************************************)
\* a feedback request that has not arrived
IdleTask ==
    [pc |-> "idle", request_id |-> "", text |-> <<>>, entry |-> <<>>, reward |-> 0,
     seen |-> [count |-> 0, reward |-> 0]]

\* the state once main.py is imported in a process with environment e,
\* the statistics file being file and the file system in condition cond
StartWith(e, file, cond) ==
    /\ env = e
    /\ policy = configured_policy(e)
    /\ store = file
    /\ stats = load_stats(store)
    /\ pending = <<>>
    /\ fs = cond
    /\ last = Idle
    /\ consumed = {}
    /\ open = {}
    /\ decisions = 0
    /\ tasks = [h \in TaskIds |-> IdleTask]
    /\ running = 0
    /\ made = get_policy_made(policy_name(e), 0)
    /\ handles = {<<policy_key(policy_name(e)), get_policy_instance(policy_name(e), 0)>>}
    /\ durable = EmptyStats

\* the same with no statistics file and a file system that works
Start(e) == StartWith(e, NoFile, "ok")

\* lines 60-81 of decide: the gate short-circuit of stage
decide_gated(context, stage) ==
    /\ \E g \in {gate_action(context, stage, stage)} :
         last' = [Idle EXCEPT !.op = "decide", !.mode = context.mode, !.stage = stage,
                              !.raised = g.raised, !.action = g.action,
                              !.policy_version = IF g.raised = "" THEN stage ELSE "",
                              !.model_version = IF g.raised = "" THEN <<"n/a">> ELSE <<>>]
    /\ UNCHANGED <<env, policy, store, fs, stats, pending, consumed, open, decisions>>
    /\ UNCHANGED <<tasks, running, made, handles, durable>>

\* lines 82-89 of decide with the bandit policy, for the <<chosen,
\* exploring>> pair the random draws give
decide_bandit(context, request_id, choice) ==
    /\ \E d \in {Bandit_decide(stats, context, choice)} :
         LET ok == d.raised = ""
         IN
           /\ stats' = d.stats
           /\ pending' = IF ok THEN record_decision(pending, request_id, context, d.action) ELSE pending
           /\ consumed' = IF ok THEN consumed \ {request_id} ELSE consumed
           /\ open' = IF ok /\ request_id # "" THEN open \cup {request_id} ELSE open
           /\ decisions' = IF ok /\ request_id # "" /\ decisions < MaxDecisions
                            THEN decisions + 1 ELSE decisions
           /\ last' = [Idle EXCEPT !.op = "decide", !.mode = context.mode, !.stage = "policy",
                                    !.raised = d.raised, !.action = d.action,
                                    !.policy_version = d.policy_version,
                                    !.model_version = <<d.model_version>>,
                                    !.policy_called = TRUE]
    /\ UNCHANGED <<env, policy, store, fs>>
    /\ UNCHANGED <<tasks, running, made, handles, durable>>

\* lines 82-89 of decide with the Ollama policy, for the clock and what
\* the backend does (the base class's record_decision does nothing)
decide_ollama(context, request_id, now_ms, backend) ==
    /\ \E d \in {Ollama_decide(context, now_ms, backend)} :
         LET ok == d.raised = ""
         IN
           last' = [Idle EXCEPT !.op = "decide", !.mode = context.mode, !.stage = "policy",
                                !.raised = d.raised, !.action = d.action,
                                !.policy_version = IF ok THEN d.policy_version ELSE "",
                                !.model_version = d.model_version,
                                !.policy_called = TRUE,
                                !.backend_called = d.backend_called]
    /\ UNCHANGED <<env, policy, store, fs, stats, pending, consumed, open, decisions>>
    /\ UNCHANGED <<tasks, running, made, handles, durable>>

\* lines 82-89 of decide with the unavailable policy
decide_unavailable(context, request_id) ==
    /\ \E d \in {Unavailable_decide(context)} :
         last' = [Idle EXCEPT !.op = "decide", !.mode = context.mode, !.stage = "policy",
                              !.action = d.action, !.policy_version = d.policy_version,
                              !.model_version = d.model_version, !.policy_called = TRUE]
    /\ UNCHANGED <<env, policy, store, fs, stats, pending, consumed, open, decisions>>
    /\ UNCHANGED <<tasks, running, made, handles, durable>>

\* the bucket statistics BanditPolicy.decide selects from (line 21)
bucket_stats_of(st, context) ==
    SetDefault(st.buckets, bucket_key(context), init_bucket)[bucket_key(context)]

\* POST /ai/decide
decide(context, request_id) ==
    \E stage \in {gate_stage(context)} :
        IF stage # "policy" THEN decide_gated(context, stage)
        ELSE IF policy = "bandit"
        THEN \E draw \in Draws :
             \E choice \in decide_choices(context, bucket_stats_of(stats, context), draw) :
                decide_bandit(context, request_id, choice)
        ELSE IF policy = "ollama"
        THEN \E now_ms \in 1..MaxNow, backend \in Backends :
                decide_ollama(context, request_id, now_ms, backend)
        ELSE decide_unavailable(context, request_id)

\* POST /ai/feedback (the audit log line it appends is not modelled)
feedback(request_id, text) ==
    LET asked == [Idle EXCEPT !.op = "feedback", !.policy_called = TRUE,
                              !.repeated = request_id \in consumed]
    IN
    /\ UNCHANGED <<env, policy, fs>>
    /\ UNCHANGED <<tasks, running, made, handles>>
    /\ IF policy = "bandit"
       THEN \E r \in {record_feedback(stats, pending, store, fs, request_id, text)} :
            /\ TotalCount(r.stats) <= MaxTrials
            /\ stats' = r.stats
            /\ pending' = r.pending
            /\ store' = r.store
            /\ durable' = IF r.saved /\ r.raised = "" /\ fs = "ok" THEN r.stats ELSE durable
            /\ consumed' = IF request_id = "" THEN consumed ELSE consumed \cup {request_id}
            /\ open' = open \ {request_id}
            /\ UNCHANGED decisions
            /\ last' = [asked EXCEPT !.raised = r.raised, !.hit = r.hit, !.saved = r.saved]
       ELSE /\ last' = asked
            /\ UNCHANGED <<stats, pending, store, consumed, open, decisions, durable>>

\* the service run with the bandit policy and the default gate settings
Init == \E e \in Environments : Start(e)
Next ==
    \/ \E context \in Contexts, request_id \in RequestIds : decide(context, request_id)
    \/ \E request_id \in RequestIds, text \in Feedbacks : feedback(request_id, text)
Spec == Init /\ [][Next]_vars

\* the service under each policy and gate configuration
GateInit == \E e \in GateEnvironments : Start(e)
GateNext ==
    \/ \E context \in GateContexts \cup OllamaContexts, request_id \in RequestIds : decide(context, request_id)
    \/ \E request_id \in RequestIds, text \in GateFeedbacks : feedback(request_id, text)
GateSpec == GateInit /\ [][GateNext]_vars

(***************************************************************************)
(* Feedback requests in flight on the event loop                           *)
(***************************************************************************)
\* (faulty variant) handlers preempted at any statement, as threads are
scheduled_preemptively(run, h) == TRUE

\* whether the handler h may take its next step when the event loop is
\* executing run (0: idle).  decide and feedback are coroutines (async
\* def) whose bodies hold no await: once the loop has started one it runs
\* it to its return before it starts or resumes another.
scheduled(run, h) == run = 0 \/ run = h

\* the requests of LoopSpec
LoopIds == {"r1", "r2"}
LoopContexts ==
    { Ctx("SILENT", <<>>, Sig1("hour_of_day", <<"9">>)),
      Ctx("SILENT", <<>>, Sig1("hour_of_day", <<"2","1">>)) }
LoopFeedbacks == { <<"L","I","K","E">>, <<"C","L","O","S","E","D">> }

\* lines 58-60 of record_feedback: the statistics with the bucket and the
\* action's entry in place
with_entry(st, bucket, action_type) ==
    LET buckets == SetDefault(st.buckets, bucket, init_bucket)
        bucket_stats == SetDefault(buckets[bucket], action_type, [count |-> 0, reward |-> 0])
    IN  [buckets |-> [buckets EXCEPT ![bucket] = bucket_stats]]

\* a feedback request reaches the service (the handlers are numbered in
\* the order of arrival)
arrive(h, request_id, text) ==
    /\ tasks[h].pc = "idle"
    /\ \A g \in TaskIds : g < h => tasks[g].pc # "idle"
    /\ tasks' = [tasks EXCEPT ![h] = [IdleTask EXCEPT !.pc = "pop", !.request_id = request_id,
                                                      !.text = text]]
    /\ UNCHANGED <<env, policy, durable, store, fs, stats, pending, last, consumed, open, decisions,
                   running, made, handles>>

\* feedback lines 94-103 and record_feedback lines 49-57: the entry is
\* popped and the reward computed; the handler returns when there is no
\* entry or the reward is 0
fb_pop(h) ==
    LET t == tasks[h]
        hit == t.request_id # "" /\ t.request_id \in DOMAIN pending
        reward == IF hit THEN Rewards[t.text] ELSE 0
    IN
    /\ t.pc = "pop" /\ scheduled(running, h)
    /\ pending' = IF hit THEN [r \in DOMAIN pending \ {t.request_id} |-> pending[r]] ELSE pending
    /\ tasks' = [tasks EXCEPT ![h] = [t EXCEPT !.pc = IF reward = 0 THEN "done" ELSE "read",
                                               !.entry = IF hit THEN pending[t.request_id] ELSE <<>>,
                                               !.reward = reward]]
    /\ running' = IF reward = 0 THEN 0 ELSE h
    /\ consumed' = IF t.request_id = "" THEN consumed ELSE consumed \cup {t.request_id}
    /\ open' = open \ {t.request_id}
    /\ UNCHANGED <<env, policy, durable, store, fs, stats, last, decisions, made, handles>>

\* record_feedback lines 58-62, the reads: the entry is put in place and
\* its count and reward are loaded
fb_read(h) ==
    LET t == tasks[h]
    IN
    /\ t.pc = "read" /\ scheduled(running, h)
    /\ stats' = with_entry(stats, t.entry[1], t.entry[2])
    /\ tasks' = [tasks EXCEPT ![h] = [t EXCEPT !.pc = "write",
                                               !.seen = stats'.buckets[t.entry[1]][t.entry[2]]]]
    /\ running' = h
    /\ UNCHANGED <<env, policy, durable, store, fs, pending, last, consumed, open, decisions, made, handles>>

\* record_feedback lines 61-62, the writes: count + 1 and reward + reward
\* of what was loaded are stored
fb_write(h) ==
    LET t == tasks[h]
        st == with_entry(stats, t.entry[1], t.entry[2])
    IN
    /\ t.pc = "write" /\ scheduled(running, h)
    /\ stats' = [buckets |-> [st.buckets EXCEPT ![t.entry[1]][t.entry[2]] =
                                 [count |-> t.seen.count + 1, reward |-> t.seen.reward + t.reward]]]
    /\ tasks' = [tasks EXCEPT ![h] = [t EXCEPT !.pc = "save"]]
    /\ running' = h
    /\ UNCHANGED <<env, policy, durable, store, fs, pending, last, consumed, open, decisions, made, handles>>

\* record_feedback line 63 and feedback line 104: the statistics are
\* saved and the handler returns
fb_save(h) ==
    LET t == tasks[h]
    IN
    /\ t.pc = "save" /\ scheduled(running, h)
    /\ store' = save_stats(stats, store, fs).store
    /\ durable' = IF fs = "ok" THEN stats ELSE durable
    /\ tasks' = [tasks EXCEPT ![h] = [t EXCEPT !.pc = "done"]]
    /\ running' = 0
    /\ UNCHANGED <<env, policy, fs, stats, pending, last, consumed, open, decisions, made, handles>>

\* the decide handler, started when the loop is idle
loop_decide(context, request_id) == running = 0 /\ decide(context, request_id)

\* the bandit service with feedback requests arriving while others are
\* being handled
LoopInit == \E e \in Environments : Start(e)
LoopNext ==
    \/ \E context \in LoopContexts, request_id \in LoopIds : loop_decide(context, request_id)
    \/ \E h \in TaskIds, request_id \in LoopIds, text \in LoopFeedbacks : arrive(h, request_id, text)
    \/ \E h \in TaskIds : fb_pop(h)
    \/ \E h \in TaskIds : fb_read(h)
    \/ \E h \in TaskIds : fb_write(h)
    \/ \E h \in TaskIds : fb_save(h)
LoopSpec == LoopInit /\ [][LoopNext]_vars

(***************************************************************************)
(* The bandit service with several requests open                           *)
(***************************************************************************)
AttribIds == {"r1", "r2"}
AttribContexts ==
    { Ctx("SILENT", <<>>, Sig2("hour_of_day", <<"9">>, "focus_app", <<"v","i","m">>)),
      Ctx("SILENT", <<"h","i">>, Sig2("hour_of_day", <<"9">>, "focus_app", <<"m","a","i","l">>)),
      Ctx("SILENT", <<>>, Sig2("hour_of_day", <<"9">>, "focus_state", <<"F","O","C","U","S","E","D">>)) }
AttribFeedbacks == { <<"O","P","E","N","_","P","A","N","E","L">>, <<"C","L","O","S","E","D">>, <<"N","O","O","P">> }

AttribInit == \E e \in Environments : Start(e)
AttribNext ==
    \/ \E context \in AttribContexts, request_id \in AttribIds : decide(context, request_id)
    \/ \E request_id \in AttribIds, text \in AttribFeedbacks : feedback(request_id, text)
AttribSpec == AttribInit /\ [][AttribNext]_vars

(***************************************************************************)
(* The bandit service on a file system that may fail                       *)
(***************************************************************************)
\* what the service finds at bandit_stats.json when it starts
StorageFiles == {NoFile, CorruptFile}
\* the outcomes of os.makedirs, open and json.dump in _save_stats
StorageConds == {"ok", "mkdir_fails", "open_fails", "write_fails"}

\* the file system starts or stops failing between two requests
storage_condition(cond) ==
    /\ fs # cond
    /\ fs' = cond
    /\ UNCHANGED <<env, policy, durable, store, stats, pending, last, consumed, open, decisions,
                   tasks, running, made, handles>>

StorageContexts == { Ctx("SILENT", <<>>, <<>>), Ctx("SILENT", <<>>, Sig1("hour_of_day", <<"9">>)) }

StorageInit == \E e \in Environments, file \in StorageFiles, cond \in StorageConds :
                  StartWith(e, file, cond)
StorageNext ==
    \/ \E context \in StorageContexts, request_id \in RequestIds : decide(context, request_id)
    \/ \E request_id \in RequestIds, text \in GateFeedbacks : feedback(request_id, text)
    \/ \E cond \in StorageConds : storage_condition(cond)
StorageSpec == StorageInit /\ [][StorageNext]_vars

(***************************************************************************)
(* The bandit service asked again under one request identifier             *)
(***************************************************************************)
RepeatIds == {"r1"}
RepeatContexts ==
    { Ctx("SILENT", <<>>, Sig1("hour_of_day", <<"9">>)), Ctx("LIGHT", <<>>, <<>>) }
\* feedback that counts
RepeatFeedbacks == { <<"O","P","E","N","_","P","A","N","E","L">>, <<"C","L","O","S","E","D">> }

RepeatInit == \E e \in Environments : Start(e)
RepeatNext ==
    \/ \E context \in RepeatContexts, request_id \in RepeatIds : decide(context, request_id)
    \/ \E request_id \in RepeatIds, text \in RepeatFeedbacks : feedback(request_id, text)
RepeatSpec == RepeatInit /\ [][RepeatNext]_vars

(***************************************************************************)
(* The bandit service restarted on the statistics file it left             *)
(***************************************************************************)
\* the process ends and starts again: main.py resolves the policy anew and
\* BanditPolicy.__init__ loads the statistics file and starts with an empty
\* pending map; the file, the environment and the history stay
restart ==
    /\ running = 0
    /\ policy' = configured_policy(env)
    /\ stats' = load_stats(store)
    /\ pending' = <<>>
    /\ last' = [Idle EXCEPT !.op = "restart"]
    /\ made' = get_policy_made(policy_name(env), 0)
    /\ UNCHANGED <<env, store, fs, consumed, open, decisions, tasks, running, handles, durable>>

RestartInit == \E e \in Environments, cond \in StorageConds : StartWith(e, NoFile, cond)
RestartNext ==
    \/ \E context \in StorageContexts, request_id \in RequestIds : decide(context, request_id)
    \/ \E request_id \in RequestIds, text \in GateFeedbacks : feedback(request_id, text)
    \/ \E cond \in StorageConds : storage_condition(cond)
    \/ restart
RestartSpec == RestartInit /\ [][RestartNext]_vars

(***************************************************************************)
(* Calls of get_policy after the start                                     *)
(***************************************************************************)
\* the names looked up
Names ==
    { None, <<>>, <<" ">>, <<"b","a","n","d","i","t">>, <<" ","B","a","n","d","i","t"," ">>,
      <<"O","L","L","A","M","A">>, <<"r","u","l","e","s">>, <<" ","R","U","L","E","S">>, <<"x">> }

\* get_policy(name)
lookup(name) ==
    /\ made < MaxLookups
    /\ handles' = handles \cup {<<policy_key(name), get_policy_instance(name, made)>>}
    /\ made' = get_policy_made(name, made)
    /\ UNCHANGED <<env, policy, durable, store, fs, stats, pending, last, consumed, open, decisions,
                   tasks, running>>

RegistryInit == \E e \in GateEnvironments : Start(e)
RegistryNext == \E name \in Names : lookup(name)
RegistrySpec == RegistryInit /\ [][RegistryNext]_vars

(***************************************************************************)
(* Properties of the bandit policy (Spec)                                  *)
(***************************************************************************)
\* the count and reward recorded for (bucket, action type), 0 and 0 when
\* the bucket has no statistics yet
StatOf(st, bucket, action_type) ==
    IF bucket \in DOMAIN st.buckets THEN st.buckets[bucket][action_type]
    ELSE [count |-> 0, reward |-> 0]

PositivePrefixes == {<<"L","I","K","E">>, <<"A","D","O","P","T","E","D">>,
                     <<"O","P","E","N","_","P","A","N","E","L">>}
NegativePrefixes == {<<"D","I","S","L","I","K","E">>, <<"I","G","N","O","R","E","D">>,
                     <<"C","L","O","S","E","D">>}
\* the prefix of a feedback text before the first ':', trimmed, upper-cased
Prefixes == [t \in Feedbacks |-> Upper(Strip(SplitFirst(t, ":")))]
PrefixOf(text) == Prefixes[text]

\* C1: once record_feedback has been called for a request identifier, any
\* further record_feedback for it with no record_decision in between
\* changes no count, no reward and not the persisted store, whatever the
\* feedback text is.
C1_SecondFeedbackIsNoOp ==
    [][last'.op = "feedback" =>
          \A r \in RequestIds, t \in Feedbacks :
             (r \in consumed /\ feedback(r, t)) => (stats' = stats /\ store' = store)]_vars

\* a repeated feedback has been handled after a trial was counted and saved
C1_Witness ==
    /\ last.op = "feedback" /\ last.repeated
    /\ TotalCount(stats) = 1 /\ store.kind = "file"

\* C2: feedback for a pending request recorded with (b, a) whose prefix is
\* LIKE, ADOPTED or OPEN_PANEL adds exactly 1 to stats[b][a].count and
\* exactly 1 to its reward; a prefix DISLIKE, IGNORED or CLOSED adds 1 to
\* the count and subtracts 1 from the reward; in both cases the whole
\* statistics structure is then in the store.
C2_QualifyingFeedbackCounts ==
    [][last'.op = "feedback" =>
          /\ \A r \in RequestIds, t \in Feedbacks :
                (/\ r \in DOMAIN pending
                 /\ PrefixOf(t) \in PositivePrefixes \cup NegativePrefixes
                 /\ feedback(r, t))
                => LET b == pending[r][1]
                       a == pending[r][2]
                       delta == IF PrefixOf(t) \in PositivePrefixes THEN 1 ELSE 0 - 1
                   IN  /\ StatOf(stats', b, a).count = StatOf(stats, b, a).count + 1
                       /\ StatOf(stats', b, a).reward = StatOf(stats, b, a).reward + delta
                       /\ last'.saved
          /\ last'.saved => (store'.kind = "file" /\ load_stats(store') = stats')]_vars

\* a negative feedback has just been counted and saved
C2_Witness ==
    /\ last.op = "feedback" /\ last.hit /\ last.saved
    /\ \E b \in DOMAIN stats.buckets, a \in ActionTypes :
         stats.buckets[b][a] = [count |-> 1, reward |-> 0 - 1]
    /\ store.kind = "file" /\ load_stats(store) = stats

\* C3: for every context with mode SILENT, BanditPolicy.decide returns
\* DO_NOT_DISTURB, whatever the statistics hold and whatever the random
\* draws give.
C3_SilentStaysQuiet ==
    [][last'.op = "decide" =>
          \A c \in Contexts, r \in RequestIds :
             (c.mode = "SILENT" /\ decide(c, r))
             => (last'.raised = "" /\ last'.action.action_type = "DO_NOT_DISTURB")]_vars

\* a SILENT decision was answered while the statistics of the SILENT
\* bucket rate DO_NOT_DISTURB below every other action type
C3_Witness ==
    /\ last.op = "decide" /\ last.mode = "SILENT" /\ last.policy_called
    /\ \E c \in Contexts :
         /\ c.mode = "SILENT"
         /\ StatOf(stats, bucket_key(c), "DO_NOT_DISTURB").reward < 0

\* the average reward of an action type in a bucket, as a fraction
AvgOf(bucket_stats, a) ==
    IF bucket_stats[a].count = 0 THEN <<0, 1>> ELSE <<bucket_stats[a].reward, bucket_stats[a].count>>
\* the action types whose average reward is maximal in the bucket
ArgMax(bucket_stats) ==
    {a \in ActionTypes :
        \A b \in ActionTypes :
            AvgOf(bucket_stats, b)[1] * AvgOf(bucket_stats, a)[2]
                <= AvgOf(bucket_stats, a)[1] * AvgOf(bucket_stats, b)[2]}

\* C8: in exploit mode (mode not SILENT, draw not below epsilon) the action
\* types BanditPolicy.decide can return are exactly those whose average
\* reward (0 when the count is 0) is maximal in the bucket's statistics.
C8_ExploitReturnsArgMax ==
    \A c \in Contexts, draw \in Draws :
        (c.mode # "SILENT" /\ draw >= epsilon)
        => /\ {ch[1] : ch \in decide_choices(c, bucket_stats_of(stats, c), draw)}
                = ArgMax(bucket_stats_of(stats, c))
           /\ \A ch \in decide_choices(c, bucket_stats_of(stats, c), draw) : ~ch[2]

\* a decision was answered from a bucket where one trial was disliked:
\* four action types tie for the maximum and the answer is one of them
C8_Witness ==
    /\ last.op = "decide" /\ last.mode # "SILENT" /\ last.policy_called
    /\ \E c \in Contexts :
         /\ c.mode = last.mode
         /\ Cardinality(ArgMax(bucket_stats_of(stats, c))) = 4
         /\ last.action.action_type \in ArgMax(bucket_stats_of(stats, c))

\* C9: feedback for a pending request whose prefix is none of LIKE,
\* ADOPTED, OPEN_PANEL, DISLIKE, IGNORED, CLOSED changes no count and no
\* reward and writes nothing to the store.
C9_ZeroRewardChangesNothing ==
    [][last'.op = "feedback" =>
          \A r \in RequestIds, t \in Feedbacks :
             (/\ r \in DOMAIN pending
              /\ PrefixOf(t) \notin PositivePrefixes \cup NegativePrefixes
              /\ feedback(r, t))
             => (stats' = stats /\ store' = store /\ ~last'.saved)]_vars

\* a zero-reward feedback consumed a pending entry when a store existed
C9_Witness ==
    /\ last.op = "feedback" /\ last.hit /\ ~last.saved
    /\ store.kind = "file" /\ TotalCount(stats) > 0

\* C10: saving any reachable statistics and loading them again gives the
\* same buckets, the same action types per bucket and the same count and
\* reward for each; and right after a save the store loads to the
\* statistics in memory.
C10_SaveLoadRoundTrip ==
    /\ load_stats(save_stats(stats, store, "ok").store) = stats
    /\ last.saved => load_stats(store) = stats

\* statistics of two buckets with two counted trials were just saved
C10_Witness ==
    /\ last.saved /\ store.kind = "file"
    /\ Cardinality(DOMAIN stats.buckets) = 2
    /\ TotalCount(stats) = 2
    /\ \A b \in DOMAIN stats.buckets : SumCounts(stats.buckets[b], ActionTypes) = 1

(***************************************************************************)
(* Properties of the gate and of the Ollama policy (GateSpec)              *)
(***************************************************************************)
\* the reason an Action carries, None when the Action has no such field
ReasonOf(action) == IF "reason" \in DOMAIN action THEN action.reason ELSE None

\* C4: whenever the resolved agent_enabled setting is false, decide returns
\* a DO_NOT_DISTURB action carrying reason agent_disabled with policy
\* version agent_disabled, the policy is not invoked, and its pending map
\* and statistics are unchanged.
C4_AgentDisabledShortCircuits ==
    [][last'.op = "decide" =>
          \A c \in GateContexts \cup OllamaContexts, r \in RequestIds :
             (~resolve_agent_settings(c)[1] /\ decide(c, r))
             => /\ last'.raised = ""
                /\ last'.action.action_type = "DO_NOT_DISTURB"
                /\ ReasonOf(last'.action) = "agent_disabled"
                /\ last'.policy_version = "agent_disabled"
                /\ ~last'.policy_called
                /\ pending' = pending /\ stats' = stats]_vars

\* C5: OllamaPolicy.decide calls the backend if and only if the precheck
\* does not fire; when it fires the answer is DO_NOT_DISTURB with reason
\* precheck:<condition>; with non-blank user text the backend is called.
C5_BackendIffNoPrecheck ==
    [][last'.op = "decide" =>
          \A c \in OllamaContexts, r \in RequestIds, now_ms \in 1..MaxNow, backend \in Backends :
             (policy = "ollama" /\ gate_stage(c) = "policy" /\ decide_ollama(c, r, now_ms, backend))
             => /\ last'.raised = ""
                /\ last'.backend_called <=> (precheck_reason(c, now_ms) = "")
                /\ precheck_reason(c, now_ms) # ""
                     => /\ last'.action.action_type = "DO_NOT_DISTURB"
                        /\ ReasonOf(last'.action) = <<"precheck:", precheck_reason(c, now_ms)>>
                /\ Strip(c.user_text) # <<>> => last'.backend_called]_vars

\* C6: when the backend call fails (network error, timeout, bad status,
\* unparsable body or inner JSON, values Action rejects), decide does not
\* raise: it returns DO_NOT_DISTURB with a non-empty message, reason
\* ollama_error and model version "error".
C6_BackendFailureIsAnswered ==
    [][last'.op = "decide" =>
          \A c \in OllamaContexts, r \in RequestIds, now_ms \in 1..MaxNow, backend \in Backends :
             (/\ policy = "ollama" /\ gate_stage(c) = "policy"
              /\ precheck_reason(c, now_ms) = ""
              /\ \/ backend.kind \in BackendFailures
                 \/ try_raised(c, backend) \in {"ValueError", "ValidationError"}
              /\ decide_ollama(c, r, now_ms, backend))
             => /\ last'.raised = ""
                /\ last'.action.action_type = "DO_NOT_DISTURB"
                /\ last'.action.message # <<>>
                /\ ReasonOf(last'.action) = "ollama_error"
                /\ last'.model_version = <<"error">>]_vars

\* C7: every decide call, under every policy and at the gate
\* short-circuits, returns an Action whose action type is one of the five
\* and whose confidence lies in [0, 1]; no exception escapes.
C7_DecideAlwaysAnswers ==
    last.op = "decide"
    => /\ last.raised = ""
       /\ last.action.action_type \in ActionTypes
       /\ last.action.confidence >= ConfidenceMin
       /\ last.action.confidence <= ConfidenceMax

\* C12: a request identifier is in BanditPolicy.pending if and only if
\* record_decision was called with that non-empty identifier and no
\* record_feedback with that identifier has been called since, whatever
\* the texts of the feedback were; the empty identifier is never in it.
C12_PendingLifecycle ==
    /\ DOMAIN pending = open
    /\ "" \notin DOMAIN pending

\* a feedback that maps to reward 0 has just removed the entry of r1,
\* which a decision had recorded
C12_Witness ==
    /\ last.op = "feedback" /\ last.hit /\ ~last.saved
    /\ decisions > 0 /\ "r1" \in consumed
    /\ "r1" \notin DOMAIN pending

\* C13: the gate stages are evaluated in the order agent-disabled,
\* rule-only, policy: with agent_enabled false the result is the
\* agent_disabled action even if rule_only is true; with agent_enabled
\* true and rule_only true it is a DO_NOT_DISTURB action with reason
\* rule_only, the policy is not invoked and nothing is recorded as
\* pending; the policy runs only when agent_enabled is true and rule_only
\* is false.
C13_GateOrder ==
    [][last'.op = "decide" =>
          \A c \in GateContexts \cup OllamaContexts, r \in RequestIds :
             decide(c, r)
             => LET agent_enabled == resolve_agent_settings(c)[1]
                    rule_only == resolve_agent_settings(c)[2]
                IN  /\ ~agent_enabled
                         => /\ last'.raised = ""
                            /\ ReasonOf(last'.action) = "agent_disabled"
                    /\ (agent_enabled /\ rule_only)
                         => /\ last'.raised = ""
                            /\ last'.action.action_type = "DO_NOT_DISTURB"
                            /\ ReasonOf(last'.action) = "rule_only"
                            /\ pending' = pending
                    /\ last'.policy_called <=> (agent_enabled /\ ~rule_only)]_vars

\* the signals the gate reads, and a signals map without those of them
\* whose value is not a recognized truthy or falsy form
GateSignals == {"agent_enabled", "rule_only_mode", "rule_only"}
Recognized(signals, k) == k \in DOMAIN signals /\ parse_bool(signals[k]) # "None"
WithoutUnrecognized(signals) ==
    [k \in {j \in DOMAIN signals : j \notin GateSignals \/ Recognized(signals, j)} |-> signals[k]]

\* C14: a recognized value of the signal agent_enabled overrides the
\* configured agent_enabled, a recognized value of the signal
\* rule_only_mode or of the signal rule_only overrides the configured
\* rule_only, and a signal whose value is not recognized is treated
\* exactly as if it were absent.
C14_SignalsOverride ==
    [][last'.op = "decide" =>
          \A c \in GateContexts \cup OllamaContexts, r \in RequestIds :
             decide(c, r)
             => LET sig == c.signals
                    got == resolve_agent_settings(c)
                IN  /\ Recognized(sig, "agent_enabled")
                         => got[1] = (parse_bool(sig["agent_enabled"]) = "True")
                    /\ Recognized(sig, "rule_only_mode")
                         => got[2] = (parse_bool(sig["rule_only_mode"]) = "True")
                    /\ (~Recognized(sig, "rule_only_mode") /\ Recognized(sig, "rule_only"))
                         => got[2] = (parse_bool(sig["rule_only"]) = "True")
                    /\ got = resolve_agent_settings([c EXCEPT !.signals = WithoutUnrecognized(sig)])]_vars

\* C15: every Action returned by a decision path has an interruption cost
\* in [0, 1] (costs are in tenths: 0 to 10).
C15_CostInUnitInterval ==
    (last.op = "decide" /\ last.raised = "")
    => (last.action.cost >= 0 /\ last.action.cost <= 10)

\* C16: get_policy resolves names to singletons: any two calls whose
\* names are equal after trimming and lower-casing, unknown names and the
\* empty name included, return the same Policy instance.
C16_PolicySingletons ==
    \A p \in handles, q \in handles : p[1] = q[1] => p[2] = q[2]

\* the fields of a context that the bucket may depend on
BucketFields(c) ==
    <<c.mode, Get(c.signals, "hour_of_day", <<>>),
      Get(c.signals, "focus_state", <<"U","N","K","N","O","W","N">>)>>

\* C17: a decision records for its request the pair (bucket, action type
\* returned), the bucket depending only on the mode and the signals
\* hour_of_day and focus_state of the context; a qualifying feedback for
\* a pending request changes the count and reward of that pair only and
\* leaves every other bucket, every other action type of the bucket and
\* every other pending entry unchanged.
C17_FeedbackAttribution ==
    [][/\ last'.op = "decide" =>
            \A c \in AttribContexts, r \in AttribIds :
               (decide(c, r) /\ last'.raised = "")
               => /\ pending' = [q \in DOMAIN pending \cup {r} |->
                                   IF q = r THEN <<bucket_key(c), last'.action.action_type>>
                                   ELSE pending[q]]
                  /\ \A d \in AttribContexts :
                        BucketFields(d) = BucketFields(c) => pending'[r][1] = bucket_key(d)
       /\ last'.op = "feedback" =>
            \A r \in AttribIds, t \in AttribFeedbacks :
               (/\ r \in DOMAIN pending
                /\ PrefixOf(t) \in PositivePrefixes \cup NegativePrefixes
                /\ feedback(r, t))
               => /\ DOMAIN stats'.buckets = DOMAIN stats.buckets
                  /\ \A b \in DOMAIN stats.buckets, a \in ActionTypes :
                        (<<b, a>> # pending[r]) = (stats'.buckets[b][a] = stats.buckets[b][a])
                  /\ pending' = [q \in DOMAIN pending \ {r} |-> pending[q]]]_vars

\* a feedback has been counted for one request while another request,
\* recorded with the same bucket and action type, stays pending, and a
\* second bucket exists
C17_Witness ==
    /\ last.op = "feedback" /\ last.hit /\ last.saved
    /\ DOMAIN pending # {}
    /\ \E q \in DOMAIN pending : stats.buckets[pending[q][1]][pending[q][2]].count > 0
    /\ Cardinality(DOMAIN stats.buckets) = 2

\* C18: in a service started with no statistics file every entry has a
\* count that is a natural number and a reward between minus the count
\* and the count, and the counts of all entries together never exceed
\* the number of decisions recorded with a non-empty request id.
C18_StatisticsBounds ==
    /\ \A b \in DOMAIN stats.buckets : \A a \in DOMAIN stats.buckets[b] :
          /\ stats.buckets[b][a].count \in Nat
          /\ 0 - stats.buckets[b][a].count <= stats.buckets[b][a].reward
          /\ stats.buckets[b][a].reward <= stats.buckets[b][a].count
    /\ TotalCount(stats) <= decisions

\* every recorded decision has been answered by a counted feedback and
\* some entry holds only negative feedback
C18_Witness ==
    /\ decisions > 0 /\ decisions < MaxDecisions /\ TotalCount(stats) = decisions
    /\ \E b \in DOMAIN stats.buckets : \E a \in DOMAIN stats.buckets[b] :
          stats.buckets[b][a].count > 0
          /\ stats.buckets[b][a].reward = 0 - stats.buckets[b][a].count

\* C19: a service started on a missing or corrupt statistics file starts
\* with the empty statistics and answers every decide; a feedback that
\* counts never raises, whatever step of the save fails, and keeps its
\* update of the statistics in memory; when the save succeeds the file
\* holds the cumulative statistics of the memory.
C19_StorageErrorsNotFatal ==
    [][/\ \A file \in StorageFiles : load_stats(file) = EmptyStats
       /\ last'.op = "decide" => last'.raised = ""
       /\ last'.op = "feedback" =>
            \A r \in RequestIds, t \in GateFeedbacks :
               (r \in DOMAIN pending /\ Rewards[t] # 0 /\ feedback(r, t))
               => /\ last'.raised = ""
                  /\ stats' = apply_reward(stats, pending[r][1], pending[r][2], Rewards[t])
                  /\ fs = "ok" =>
                       /\ store'.kind = "file"
                       /\ \A b \in DOMAIN stats'.buckets, a \in ActionTypes :
                             StatOf(load_stats(store'), b, a) = stats'.buckets[b][a]]_vars

\* C20: a decide of the bandit policy leaves every count and reward it
\* finds as it is and leaves the statistics file as it is; the only
\* change of the statistics is one new bucket with every count and
\* reward zero; no pending entry is removed, and the pending map changes
\* only by the entry that the record_decision of the handler writes
\* afterwards, so not at all for an empty request id.
C20_DecideReadOnly ==
    [][last'.op = "decide" =>
         /\ store' = store
         /\ \A b \in DOMAIN stats.buckets :
               b \in DOMAIN stats'.buckets /\ stats'.buckets[b] = stats.buckets[b]
         /\ \A b \in DOMAIN stats'.buckets \ DOMAIN stats.buckets :
               stats'.buckets[b] = init_bucket
         /\ Cardinality(DOMAIN stats'.buckets \ DOMAIN stats.buckets) <= 1
         /\ DOMAIN pending \subseteq DOMAIN pending'
         /\ Cardinality({q \in DOMAIN pending' :
                            q \notin DOMAIN pending \/ pending'[q] # pending[q]}) <= 1
         /\ \A q \in DOMAIN pending' :
               (q \notin DOMAIN pending \/ pending'[q] # pending[q])
               => /\ q # ""
                  /\ pending'[q][1] \in DOMAIN stats'.buckets
                  /\ pending'[q][2] = last'.action.action_type
         /\ \A c \in Contexts :
               (last'.mode = c.mode /\ decide(c, "")) => pending' = pending]_vars

\* a decide has just inserted a bucket that the statistics file does not
\* hold, next to a bucket with counted feedback
C20_Witness ==
    /\ last.op = "decide" /\ store.kind = "file"
    /\ \E b \in DOMAIN stats.buckets :
          b \notin DOMAIN load_stats(store).buckets /\ stats.buckets[b] = init_bucket
    /\ \E b \in DOMAIN stats.buckets : \E a \in ActionTypes : stats.buckets[b][a].count > 0

\* C21: a decision recorded under a request identifier that is still
\* pending replaces the entry of that identifier: the pending map keeps
\* one entry per identifier, now the pair of the latest decision, and no
\* count changes; a qualifying feedback that follows counts one trial
\* for the pair of the latest decision, none for the pair of the earlier
\* decision, and leaves the identifier not pending.
C21_LatestDecisionWins ==
    [][last'.op = "decide" =>
         \A c \in RepeatContexts, r \in RepeatIds :
            (r \in DOMAIN pending /\ decide(c, r) /\ last'.raised = "")
            => /\ DOMAIN pending' = DOMAIN pending
               /\ pending' = [pending EXCEPT ![r] = <<bucket_key(c), last'.action.action_type>>]
               /\ TotalCount(stats') = TotalCount(stats)
               /\ \A t \in RepeatFeedbacks :
                     LET f == record_feedback(stats', pending', store', fs', r, t)
                     IN  /\ f.hit /\ r \notin DOMAIN f.pending
                         /\ TotalCount(f.stats) = TotalCount(stats) + 1
                         /\ StatOf(f.stats, pending'[r][1], pending'[r][2]).count
                               = StatOf(stats, pending'[r][1], pending'[r][2]).count + 1
                         /\ pending[r] # pending'[r]
                               => StatOf(f.stats, pending[r][1], pending[r][2])
                                     = StatOf(stats, pending[r][1], pending[r][2])]_vars

\* two decisions were recorded under the one identifier and the one
\* feedback that followed counted a single trial: the bucket of the
\* other decision holds no trial and nothing is pending
C21_Witness ==
    /\ last.op = "feedback" /\ last.hit /\ last.saved
    /\ decisions = 2 /\ TotalCount(stats) = 1 /\ DOMAIN pending = {}
    /\ \E b \in DOMAIN stats.buckets : stats.buckets[b] = init_bucket

\* C22: after a restart every count and reward equals what the last save
\* that succeeded wrote and the pending map is empty; a feedback for a
\* decision recorded before the restart finds no entry and changes
\* neither the statistics nor the statistics file.
C22_RestartRestoresPersisted ==
    [][/\ (last'.op = "restart" /\ restart)
            => /\ \A b \in DOMAIN stats'.buckets \cup DOMAIN durable.buckets, a \in ActionTypes :
                     StatOf(stats', b, a) = StatOf(durable, b, a)
               /\ DOMAIN pending' = {}
               /\ \A r \in DOMAIN pending, t \in GateFeedbacks :
                     LET f == record_feedback(stats', pending', store', fs', r, t)
                     IN  ~f.hit /\ f.stats = stats' /\ f.store = store'
       /\ last'.op = "feedback"
            => \A r \in RequestIds, t \in GateFeedbacks :
                  (r \in open \ DOMAIN pending /\ feedback(r, t))
                  => (~last'.hit /\ stats' = stats /\ store' = store)]_vars

(***************************************************************************)
(* Properties of concurrent feedback (LoopSpec)                            *)
(***************************************************************************)
\* the handlers that found a pending entry and a non-zero reward
Counting == {h \in TaskIds : tasks[h].pc \in {"read", "write", "save", "done"} /\ tasks[h].reward # 0}
\* those of them that have stored their update
Stored == {h \in Counting : tasks[h].pc \in {"save", "done"}}

\* C11: under any interleaving of feedback requests that arrive while
\* others are being handled, no update is lost: every (bucket, action)
\* entry counts exactly the handlers that stored an update for it, its
\* reward is their rewards' sum, and once all of them have returned the
\* store holds the statistics with all the updates.
C11_NoUpdateLost ==
    /\ \A b \in DOMAIN stats.buckets, a \in ActionTypes :
         LET on == {h \in Stored : tasks[h].entry = <<b, a>>}
         IN  /\ stats.buckets[b][a].count = Cardinality(on)
             /\ stats.buckets[b][a].reward =
                  Cardinality({h \in on : tasks[h].reward = 1})
                  - Cardinality({h \in on : tasks[h].reward = 0 - 1})
    /\ TotalCount(stats) = Cardinality(Stored)
    /\ (Counting # {} /\ \A h \in Counting : tasks[h].pc = "done")
         => \A b \in DOMAIN stats.buckets, a \in ActionTypes :
               StatOf(load_stats(store), b, a) = stats.buckets[b][a]

\* two feedback requests for distinct identifiers recorded with the same
\* bucket and action were both in flight and have both returned
C11_Witness ==
    /\ \A h \in TaskIds : tasks[h].pc = "done" /\ tasks[h].reward # 0
    /\ \A h, g \in TaskIds : tasks[h].entry = tasks[g].entry
    /\ \A h, g \in TaskIds : h # g => tasks[h].request_id # tasks[g].request_id
    /\ TotalCount(stats) = MaxTasks /\ TotalCount(load_stats(store)) = MaxTasks
====
